---- MODULE Spec2Model ----
(***************************************************************************)
(* secvarctl entry point (src/src/secvarctl.c): flag parsing and mode      *)
(* selection, backend registry lookup, platform probe, command dispatch.   *)
(*                                                                         *)
(* C strings are modelled as sequences of one-character strings (without   *)
(* the terminating NUL), so that strcmp/strncmp compare what the C library *)
(* compares.  One run of main is one behaviour: Init fixes the build and   *)
(* the argument vector, the actions are the steps of main in program       *)
(* order.                                                                  *)
(***************************************************************************)
EXTENDS Integers, Sequences, FiniteSets, TLC

VARIABLES
  build,           \* which backends the build compiled in, and with which command tables
  args,            \* the argument vector the process was started with (argv[0] first)
  argc,            \* main's argc
  av,              \* main's argv, as an offset into args (argv++ is av + 1)
  pc,              \* position in main
  verbose,         \* global `verbose`
  secvarctl_mode,  \* main's secvarctl_mode
  mode_sets,       \* number of assignments to secvarctl_mode so far
  backend_name,    \* main's backend_name: "NULL" or the macro it was set from
  backend,         \* main's backend: 0 (NULL) or an index into backends
  subcommand,      \* main's subcommand: 0 (NULL) or an offset into args, plus one
  i,               \* main's loop index i
  rc,              \* main's rc
  ret,             \* the value main returned (meaningful when pc = "done")
  out,             \* what was printed, in order
  calls,           \* handler invocations, in order
  probes,          \* number of get_backend calls so far
  file,            \* what the probe found at /sys/firmware/secvar/format (once probes > 0)
  probed,          \* what get_backend returned at line 230 (once probes > 0)
  lookups,         \* number of is_known_backend calls so far
  compares         \* command-table comparisons made so far, in order

vars == <<build, mode_sets, args, argc, av, pc, verbose, secvarctl_mode, backend_name,
          backend, subcommand, i, rc, ret, out, calls, probes, file, probed, lookups, compares>>

-----------------------------------------------------------------------------
(* Bounds of the model. *)

\* most tokens of an argument vector between its lead and its trail
MaxArgs == 2

-----------------------------------------------------------------------------
(* Status codes and log levels (declared in headers of the repository). *)

SUCCESS == 0
ARG_PARSE_FAIL == 3
UNKNOWN_COMMAND == 5

UNKNOWN_BACKEND == 0
BACKEND_FOUND == 1

PR_ERR == 3
PR_WARNING == 4
PR_NOTICE == 5
PR_DEBUG == 7

\* the bound of the command-name comparison, line 253
CMD_NAME_CMP == 32

-----------------------------------------------------------------------------
(* C strings. *)

Min(a, b) == IF a < b THEN a ELSE b

Take(s, n) == SubSeq(s, 1, Min(n, Len(s)))

strlen(s) == Len(s)

\* strcmp(a, b) == 0
strcmp_eq(a, b) == a = b

\* strncmp(a, b, n) == 0: the strings agree over their first n characters,
\* a terminating NUL ending the comparison.
strncmp_eq(a, b, n) == Take(a, n) = Take(b, n)

\* *s == '-' for a C string s (an empty string holds only its NUL)
StartsWithDash(s) == Len(s) > 0 /\ s[1] = "-"

S_prog      == <<"s","e","c","v","a","r","c","t","l">>
S_usage     == <<"-","-","u","s","a","g","e">>
S_help      == <<"-","-","h","e","l","p">>
S_h         == <<"-","h">>
S_m         == <<"-","m">>
S_mode      == <<"-","-","m","o","d","e">>
S_v         == <<"-","v">>
S_verbose   == <<"-","-","v","e","r","b","o","s","e">>
S_guest     == <<"g","u","e","s","t">>
S_host      == <<"h","o","s","t">>

HOST_BACKEND  == <<"i","b","m",",","e","d","k","2","-","c","o","m","p","a","t","-","v","1">>
GUEST_BACKEND == <<"i","b","m",",","p","l","p","k","s","-","s","b","-","v","1">>

S_read      == <<"r","e","a","d">>
S_write     == <<"w","r","i","t","e">>
S_validate  == <<"v","a","l","i","d","a","t","e">>
S_verify    == <<"v","e","r","i","f","y">>
S_Host      == <<"H","o","s","t">>
S_x         == <<"-","x">>
S_nl        == <<"\n">>

-----------------------------------------------------------------------------
(* The backend registry and the command tables. *)

Cmd(n, f) == [name |-> n, func |-> f]

\* The command tables the backends supply (host_svc_backend.h and
\* guest_svc_backend.h); the names are those of the usage text.
TablesDocumented ==
  [host  |-> << Cmd(S_read, "host_read"), Cmd(S_write, "host_write"),
                Cmd(S_validate, "host_validate"), Cmd(S_verify, "host_verify") >>,
   guest |-> << Cmd(S_read, "guest_read"), Cmd(S_write, "guest_write"),
                Cmd(S_validate, "guest_validate"), Cmd(S_verify, "guest_verify") >>]

\* Tables in which a later entry repeats the name of an earlier one.
TablesShadowed ==
  [host  |-> << Cmd(S_read, "host_read"), Cmd(S_verify, "host_verify"),
                Cmd(S_read, "host_read_again") >>,
   guest |-> << Cmd(S_verify, "guest_verify"), Cmd(S_read, "guest_read"),
                Cmd(S_verify, "guest_verify_again"), Cmd(S_read, "guest_read_again") >>]

\* a command name one character longer than the comparison of line 253 reads
LongName == [j \in 1 .. CMD_NAME_CMP |-> "a"] \o <<"b">>

\* Tables with names longer than the comparison reads; the third entry
\* differs from the second after the characters compared.
TablesLong ==
  [host  |-> << Cmd(S_read, "host_read"), Cmd(LongName, "host_long"),
                Cmd(Take(LongName, CMD_NAME_CMP) \o <<"c">>, "host_long_again") >>,
   guest |-> << Cmd(LongName, "guest_long"), Cmd(S_read, "guest_read"),
                Cmd(Take(LongName, CMD_NAME_CMP) \o <<"c">>, "guest_long_again") >>]

CommandTables == {"documented", "shadowed"}

TablesOf(t) ==
  IF t = "shadowed" THEN TablesShadowed
  ELSE IF t = "long" THEN TablesLong
  ELSE TablesDocumented

\* Which of SECVAR_HOST_BACKEND / SECVAR_GUEST_BACKEND the build defines.
Builds == { b \in [host : BOOLEAN, guest : BOOLEAN, tables : CommandTables] :
              b.host \/ b.guest }

\* the same builds with the tables of long names
LongBuilds == { b \in [host : BOOLEAN, guest : BOOLEAN, tables : {"long"}] :
                  b.host \/ b.guest }

Backend(n, t) == [name |-> n, countCmds |-> Len(t), commands |-> t]

\* static struct backend backends[], as build b defines it
Registry(b) ==
  (IF b.host THEN << Backend(HOST_BACKEND, TablesOf(b.tables).host) >> ELSE << >>)
  \o (IF b.guest THEN << Backend(GUEST_BACKEND, TablesOf(b.tables).guest) >> ELSE << >>)

\* the registries of all builds
Registries == [b \in Builds \cup LongBuilds |-> Registry(b)]

\* the registry of this run's build
backends == Registries[build]

\* The string a backend_name macro stands for.
NameOf(macro) == IF macro = "GUEST_BACKEND" THEN GUEST_BACKEND ELSE HOST_BACKEND

-----------------------------------------------------------------------------
(* is_known_backend and get_backend. *)

\* prlog(level, msg): printed when the level is within the verbosity lvl
prlog(level, msg, lvl) == IF level <= lvl THEN <<msg>> ELSE << >>

RECURSIVE known_backend_from(_, _, _, _)
known_backend_from(reg, buff, k, cur) ==
  IF k > Len(reg) THEN [rc |-> UNKNOWN_BACKEND, backend |-> cur]
  ELSE IF strncmp_eq(buff, reg[k].name, strlen(reg[k].name))
       THEN [rc |-> BACKEND_FOUND, backend |-> k]
       ELSE known_backend_from(reg, buff, k + 1, cur)

\* (variant: an unmatched name is taken for the first backend)
is_known_backend_FirstByDefault(reg, buff, cur) ==
  LET r == known_backend_from(reg, buff, 1, cur)
  IN IF r.rc = UNKNOWN_BACKEND THEN [rc |-> BACKEND_FOUND, backend |-> 1] ELSE r

\* (variant: whatever name is found, the first backend is handed out)
is_known_backend_AlwaysFirst(reg, buff, cur) ==
  LET r == known_backend_from(reg, buff, 1, cur)
  IN IF r.rc = BACKEND_FOUND THEN [rc |-> BACKEND_FOUND, backend |-> 1] ELSE r

\* (variant: the comparison runs over the length of the candidate)
is_known_backend_CandidateLength(reg, buff, cur) ==
  LET hits == { k \in 1..Len(reg) : strncmp_eq(buff, reg[k].name, strlen(buff)) }
  IN IF hits = {} THEN [rc |-> UNKNOWN_BACKEND, backend |-> cur]
     ELSE [rc |-> BACKEND_FOUND, backend |-> CHOOSE k \in hits : \A j \in hits : k <= j]

\* is_known_backend(buff, &backend): the status returned and the value the
\* caller's backend holds afterwards (cur is what it held before).
is_known_backend(reg, buff, cur) == known_backend_from(reg, buff, 1, cur)

\* prlog(PR_NOTICE, "found backend ...") inside is_known_backend
found_log(r, lvl) == IF r.rc = BACKEND_FOUND THEN prlog(PR_NOTICE, "notice: found backend", lvl) ELSE << >>

RECURSIVE max_name_from(_, _, _)
max_name_from(reg, k, m) ==
  IF k > Len(reg) THEN m
  ELSE max_name_from(reg, k + 1, IF strlen(reg[k].name) > m THEN strlen(reg[k].name) ELSE m)

\* max_buff_size of get_backend
max_buff_size(reg) == max_name_from(reg, 1, strlen(reg[1].name))

\* States of the platform status file.
FileAbsent     == [exists |-> FALSE, readable |-> FALSE, data |-> << >>]
FileUnreadable == [exists |-> TRUE, readable |-> FALSE, data |-> << >>]
FileWith(d)    == [exists |-> TRUE, readable |-> TRUE, data |-> d]

\* what the file may hold: a backend name, a backend name and a newline, the
\* beginning of a backend name, nothing
FileContents == { HOST_BACKEND, GUEST_BACKEND \o S_nl, Take(HOST_BACKEND, 8), << >> }

FileStates == {FileAbsent, FileUnreadable} \cup { FileWith(d) : d \in FileContents }

\* is_file(path): nonzero when the file does not exist
is_file(f) == IF f.exists THEN 0 ELSE 1

\* get_data_from_file(path, max, &size): the data read, at most max bytes;
\* has = FALSE is the NULL return (read failed or nothing to read).
get_data_from_file(f, max) ==
  IF f.readable /\ Len(f.data) > 0
  THEN [has |-> TRUE, buff |-> Take(f.data, max)]
  ELSE [has |-> FALSE, buff |-> << >>]

\* get_backend(): the backend returned (0 is NULL), what it logged, and the
\* is_known_backend calls it made.
get_backend(reg, f, lvl) ==
  IF is_file(f) # 0
  THEN [result |-> 0,
        log |-> prlog(PR_WARNING, "warn: platform does not support secure variables", lvl),
        looked |-> 0]
  ELSE LET d == get_data_from_file(f, max_buff_size(reg))
       IN IF ~d.has
          THEN [result |-> 0,
                log |-> prlog(PR_WARNING, "warn: could not extract data", lvl),
                looked |-> 0]
          ELSE LET r == is_known_backend(reg, d.buff, 0)
               IN [result |-> r.backend,
                   log |-> found_log(r, lvl) \o
                           (IF r.rc = 0
                            THEN prlog(PR_WARNING, "warn: does not contain known backend format", lvl)
                            ELSE << >>),
                   looked |-> 1]

-----------------------------------------------------------------------------
(* The inputs of a run. *)

\* the tokens argument vectors are built from: the flags, an unknown flag,
\* the mode values and a miscased one, and a command name
Tokens == { S_m, S_v, S_help, S_usage, S_x, S_host, S_guest, S_Host, S_read }

RECURSIVE SeqsUpTo(_, _)
SeqsUpTo(S, n) ==
  IF n = 0 THEN { << >> }
  ELSE LET shorter == SeqsUpTo(S, n - 1)
       IN shorter \cup { Append(t, x) : t \in { u \in shorter : Len(u) = n - 1 }, x \in S }

\* how an argument vector may begin: with nothing, with a mode selection, or
\* with two of them that differ
Leads ==
  { << >>, <<S_m, S_host>>, <<S_mode, S_guest>>, <<S_m, S_host, S_mode, S_guest>> }

\* how it may end: with nothing, or with two more tokens that look like flags
Trails == { << >>, <<S_verbose, S_h>> }

\* argument vectors: the program name, a lead, at most MaxArgs tokens, a trail
ArgVectors ==
  { <<S_prog>> \o l \o t \o r : l \in Leads, t \in SeqsUpTo(Tokens, MaxArgs), r \in Trails }

\* what a handler may return
HandlerRets == { SUCCESS, ARG_PARSE_FAIL, UNKNOWN_COMMAND, -1 }

-----------------------------------------------------------------------------
(* main. *)

\* *argv, for an argv that points at a token (argv[argc] is NULL)
Cur == args[av + 1]

usage == <<"usage">>

\* help() prints the help text and calls usage()
help == <<"help">> \o usage

\* (variant: the handler is handed the vector past the subcommand token)
HandlerArgv_PastSubcommand(a, c, v) == SubSeq(a, v + 2, v + c)

\* what a handler called as func(argc, argv) can see: argv[0] .. argv[argc - 1]
HandlerArgv(a, c, v) == SubSeq(a, v + 1, v + c)

\* return x from main, having printed msgs
Return(x, msgs) ==
  /\ ret' = x
  /\ out' = out \o msgs
  /\ pc' = "done"

Init ==
  /\ build \in Builds
  /\ args \in ArgVectors
  /\ argc = Len(args)
  /\ av = 0
  /\ pc = "start"
  /\ verbose = PR_WARNING
  /\ secvarctl_mode = -1
  /\ mode_sets = 0
  /\ backend_name = "NULL"
  /\ backend = 0
  /\ subcommand = 0
  /\ i = 0
  /\ rc = 0
  /\ ret = 0
  /\ out = << >>
  /\ calls = << >>
  /\ probes = 0
  /\ file = FileAbsent
  /\ probed = 0
  /\ lookups = 0
  /\ compares = << >>

\* lines 159-163
NoArguments ==
  /\ pc = "start"
  /\ argc < 2
  /\ Return(ARG_PARSE_FAIL, usage)
  /\ UNCHANGED <<build, mode_sets, args, argc, av, verbose, secvarctl_mode, backend_name,
                 backend, subcommand, i, rc, calls, probes, file, probed, lookups, compares>>

\* lines 165-166
Begin ==
  /\ pc = "start"
  /\ ~(argc < 2)
  /\ av' = av + 1
  /\ argc' = argc - 1
  /\ pc' = "flags"
  /\ UNCHANGED <<build, mode_sets, args, verbose, secvarctl_mode, backend_name, backend,
                 subcommand, i, rc, ret, out, calls, probes, file, probed, lookups, compares>>

\* (variant: the loop goes on whatever the token begins with)
InFlags_AnyToken == argc > 0

\* the loop condition of line 168
InFlags == argc > 0 /\ StartsWithDash(Cur)

\* lines 170-174
FlagUsage ==
  /\ pc = "flags" /\ InFlags
  /\ strcmp_eq(S_usage, Cur)
  /\ Return(SUCCESS, usage)
  /\ UNCHANGED <<build, mode_sets, args, argc, av, verbose, secvarctl_mode, backend_name,
                 backend, subcommand, i, rc, calls, probes, file, probed, lookups, compares>>

\* (variant: the help text is printed and parsing goes on)
FlagHelp_KeepsParsing ==
  /\ pc = "flags" /\ InFlags
  /\ ~strcmp_eq(S_usage, Cur)
  /\ strcmp_eq(S_help, Cur) \/ strcmp_eq(S_h, Cur)
  /\ out' = out \o help
  /\ av' = av + 1
  /\ argc' = argc - 1
  /\ UNCHANGED <<build, mode_sets, args, pc, verbose, secvarctl_mode, backend_name, backend,
                 subcommand, i, rc, ret, calls, probes, file, probed, lookups, compares>>

\* lines 175-179
FlagHelp ==
  /\ pc = "flags" /\ InFlags
  /\ ~strcmp_eq(S_usage, Cur)
  /\ strcmp_eq(S_help, Cur) \/ strcmp_eq(S_h, Cur)
  /\ Return(SUCCESS, help)
  /\ UNCHANGED <<build, mode_sets, args, argc, av, verbose, secvarctl_mode, backend_name,
                 backend, subcommand, i, rc, calls, probes, file, probed, lookups, compares>>

\* the token is -m or --mode and no earlier branch took it
IsModeFlag ==
  /\ ~strcmp_eq(S_usage, Cur)
  /\ ~(strcmp_eq(S_help, Cur) \/ strcmp_eq(S_h, Cur))
  /\ strcmp_eq(S_m, Cur) \/ strcmp_eq(S_mode, Cur)

\* (variant: guest mode is given the host backend's name and host the guest's)
ModeValue_NamesSwapped(a, v) ==
  IF v < Len(a) /\ strcmp_eq(S_guest, a[v + 1])
  THEN [mode |-> 1, name |-> "HOST_BACKEND"]
  ELSE IF v < Len(a) /\ strcmp_eq(S_host, a[v + 1])
       THEN [mode |-> 0, name |-> "GUEST_BACKEND"]
       ELSE [mode |-> -1, name |-> "NULL"]

\* (variant: the mode value is compared on its first letter, in either case)
ModeValue_FirstLetter(a, v) ==
  IF v < Len(a) /\ Len(a[v + 1]) > 0 /\ a[v + 1][1] \in {"g", "G"}
  THEN [mode |-> 1, name |-> "GUEST_BACKEND"]
  ELSE IF v < Len(a) /\ Len(a[v + 1]) > 0 /\ a[v + 1][1] \in {"h", "H"}
       THEN [mode |-> 0, name |-> "HOST_BACKEND"]
       ELSE [mode |-> -1, name |-> "NULL"]

\* the mode and backend name for the token at offset v of a (lines 184-193),
\* or mode -1 when the token is absent or neither "guest" nor "host"
ModeValue(a, v) ==
  IF v < Len(a) /\ strcmp_eq(S_guest, a[v + 1])
  THEN [mode |-> 1, name |-> "GUEST_BACKEND"]
  ELSE IF v < Len(a) /\ strcmp_eq(S_host, a[v + 1])
       THEN [mode |-> 0, name |-> "HOST_BACKEND"]
       ELSE [mode |-> -1, name |-> "NULL"]

\* (variant: a mode already set is kept)
FlagModeSet_FirstWins ==
  /\ pc = "flags" /\ InFlags
  /\ IsModeFlag
  /\ LET m == ModeValue(args, av + 1)
     IN /\ m.mode # -1
        /\ secvarctl_mode' = IF secvarctl_mode = -1 THEN m.mode ELSE secvarctl_mode
        /\ backend_name' = IF secvarctl_mode = -1 THEN m.name ELSE backend_name
        /\ mode_sets' = IF secvarctl_mode = -1 THEN mode_sets + 1 ELSE mode_sets
  /\ av' = av + 2
  /\ argc' = argc - 2
  /\ UNCHANGED <<build, args, pc, verbose, backend, subcommand, i, rc, ret, out,
                 calls, probes, file, probed, lookups, compares>>

\* lines 180-193, and the loop's step: a mode value was given
FlagModeSet ==
  /\ pc = "flags" /\ InFlags
  /\ IsModeFlag
  /\ LET m == ModeValue(args, av + 1)
     IN /\ m.mode # -1
        /\ secvarctl_mode' = m.mode
        /\ backend_name' = m.name
  /\ mode_sets' = mode_sets + 1
  /\ av' = av + 2
  /\ argc' = argc - 2
  /\ UNCHANGED <<build, args, pc, verbose, backend, subcommand, i, rc, ret, out,
                 calls, probes, file, probed, lookups, compares>>

\* lines 180-183 and 194-205: the mode value is unknown or missing
FlagModeBad ==
  /\ pc = "flags" /\ InFlags
  /\ IsModeFlag
  /\ ModeValue(args, av + 1).mode = -1
  /\ av' = av + 1
  /\ argc' = argc - 1
  /\ IF av + 1 < Len(args)
     THEN Return(SUCCESS, prlog(PR_WARNING, "warn: unknown mode", verbose) \o usage)
     ELSE Return(SUCCESS, prlog(PR_WARNING, "warn: mode name is needed", verbose) \o usage)
  /\ UNCHANGED <<build, mode_sets, args, verbose, secvarctl_mode, backend_name, backend,
                 subcommand, i, rc, calls, probes, file, probed, lookups, compares>>

\* (variant: the loop does not step past the flag)
FlagVerbose_NoAdvance ==
  /\ pc = "flags" /\ InFlags
  /\ ~strcmp_eq(S_usage, Cur)
  /\ ~(strcmp_eq(S_help, Cur) \/ strcmp_eq(S_h, Cur))
  /\ ~(strcmp_eq(S_m, Cur) \/ strcmp_eq(S_mode, Cur))
  /\ strcmp_eq(S_v, Cur) \/ strcmp_eq(S_verbose, Cur)
  /\ verbose' = PR_DEBUG
  /\ av' = av
  /\ argc' = argc
  /\ UNCHANGED <<build, mode_sets, args, pc, secvarctl_mode, backend_name, backend, subcommand,
                 i, rc, ret, out, calls, probes, file, probed, lookups, compares>>

\* lines 207-208, and the loop's step
FlagVerbose ==
  /\ pc = "flags" /\ InFlags
  /\ ~strcmp_eq(S_usage, Cur)
  /\ ~(strcmp_eq(S_help, Cur) \/ strcmp_eq(S_h, Cur))
  /\ ~(strcmp_eq(S_m, Cur) \/ strcmp_eq(S_mode, Cur))
  /\ strcmp_eq(S_v, Cur) \/ strcmp_eq(S_verbose, Cur)
  /\ verbose' = PR_DEBUG
  /\ av' = av + 1
  /\ argc' = argc - 1
  /\ UNCHANGED <<build, mode_sets, args, pc, secvarctl_mode, backend_name, backend, subcommand,
                 i, rc, ret, out, calls, probes, file, probed, lookups, compares>>

\* (variant: an unknown flag is an argument error)
FlagOther_Fails ==
  /\ pc = "flags" /\ InFlags
  /\ ~strcmp_eq(S_usage, Cur)
  /\ ~(strcmp_eq(S_help, Cur) \/ strcmp_eq(S_h, Cur))
  /\ ~(strcmp_eq(S_m, Cur) \/ strcmp_eq(S_mode, Cur))
  /\ ~(strcmp_eq(S_v, Cur) \/ strcmp_eq(S_verbose, Cur))
  /\ Return(ARG_PARSE_FAIL, usage)
  /\ UNCHANGED <<build, mode_sets, args, argc, av, verbose, secvarctl_mode, backend_name,
                 backend, subcommand, i, rc, calls, probes, file, probed, lookups, compares>>

\* lines 209-213
FlagOther ==
  /\ pc = "flags" /\ InFlags
  /\ ~strcmp_eq(S_usage, Cur)
  /\ ~(strcmp_eq(S_help, Cur) \/ strcmp_eq(S_h, Cur))
  /\ ~(strcmp_eq(S_m, Cur) \/ strcmp_eq(S_mode, Cur))
  /\ ~(strcmp_eq(S_v, Cur) \/ strcmp_eq(S_verbose, Cur))
  /\ Return(SUCCESS, usage)
  /\ UNCHANGED <<build, mode_sets, args, argc, av, verbose, secvarctl_mode, backend_name,
                 backend, subcommand, i, rc, calls, probes, file, probed, lookups, compares>>

\* the loop of line 168 ends
FlagsDone ==
  /\ pc = "flags" /\ ~InFlags
  /\ pc' = "check"
  /\ UNCHANGED <<build, mode_sets, args, argc, av, verbose, secvarctl_mode, backend_name,
                 backend, subcommand, i, rc, ret, out, calls, probes, file, probed, lookups, compares>>

\* lines 216-221
NoCommand ==
  /\ pc = "check"
  /\ argc <= 0
  /\ Return(ARG_PARSE_FAIL, prlog(PR_ERR, "error: commands not found", verbose) \o usage)
  /\ UNCHANGED <<build, mode_sets, args, argc, av, verbose, secvarctl_mode, backend_name,
                 backend, subcommand, i, rc, calls, probes, file, probed, lookups, compares>>

\* (variant: the test never finds the mode unset)
ModeIsUnset_Never == FALSE

\* the test of line 223
ModeIsUnset == secvarctl_mode = -1

\* (variant: the mode is tested before the remaining argument count)
ModeUnset_First ==
  /\ pc = "check"
  /\ ModeIsUnset
  /\ Return(SUCCESS, usage)
  /\ UNCHANGED <<build, mode_sets, args, argc, av, verbose, secvarctl_mode, backend_name,
                 backend, subcommand, i, rc, calls, probes, file, probed, lookups, compares>>

\* lines 223-227
ModeUnset ==
  /\ pc = "check"
  /\ ~(argc <= 0)
  /\ ModeIsUnset
  /\ Return(SUCCESS, usage)
  /\ UNCHANGED <<build, mode_sets, args, argc, av, verbose, secvarctl_mode, backend_name,
                 backend, subcommand, i, rc, calls, probes, file, probed, lookups, compares>>

\* (variant: the requested mode's name is looked up whatever the probe returned)
AfterProbe_AlwaysFallback(b) == "fallback"

\* where main goes after get_backend returned b (line 231)
AfterProbe(b) == IF b = 0 THEN "fallback" ELSE "dispatch"

\* line 230: the platform probe, for whatever the status file holds
Probe ==
  /\ pc = "check"
  /\ ~(argc <= 0)
  /\ ~ModeIsUnset
  /\ \E f \in FileStates :
       LET g == get_backend(backends, f, verbose)
       IN /\ probes' = probes + 1
          /\ file' = f
          /\ probed' = g.result
          /\ backend' = g.result
          /\ out' = out \o g.log
          /\ lookups' = lookups + g.looked
          /\ pc' = AfterProbe(g.result)
  /\ UNCHANGED <<build, mode_sets, args, argc, av, verbose, secvarctl_mode, backend_name,
                 subcommand, i, rc, ret, calls, compares>>

\* lines 231-238: the requested mode's backend is in the registry
FallbackFound ==
  /\ pc = "fallback"
  /\ LET r == is_known_backend(backends, NameOf(backend_name), backend)
     IN /\ r.rc # 0
        /\ backend' = r.backend
        /\ out' = out \o found_log(r, verbose)
                      \o prlog(PR_WARNING, "warn: unsupported backend detected, assuming", verbose)
  /\ lookups' = lookups + 1
  /\ pc' = "dispatch"
  /\ UNCHANGED <<build, mode_sets, args, argc, av, verbose, secvarctl_mode, backend_name,
                 subcommand, i, rc, ret, calls, probes, file, probed, compares>>

\* lines 231-244: it is not
FallbackMissing ==
  /\ pc = "fallback"
  /\ LET r == is_known_backend(backends, NameOf(backend_name), backend)
     IN /\ ~(r.rc # 0)
        /\ backend' = r.backend
  /\ lookups' = lookups + 1
  /\ Return(SUCCESS, prlog(PR_WARNING, "warn: mode is not enabled", verbose))
  /\ UNCHANGED <<build, mode_sets, args, argc, av, verbose, secvarctl_mode, backend_name,
                 subcommand, i, rc, calls, probes, file, probed, compares>>

\* (variant: rc starts as SUCCESS)
Dispatch_SuccessByDefault ==
  /\ pc = "dispatch"
  /\ subcommand' = av + 1
  /\ rc' = SUCCESS
  /\ i' = 0
  /\ pc' = "loop"
  /\ UNCHANGED <<build, mode_sets, args, argc, av, verbose, secvarctl_mode, backend_name,
                 backend, ret, out, calls, probes, file, probed, lookups, compares>>

\* lines 248-251: subcommand = *argv; rc = UNKNOWN_COMMAND; i = 0
Dispatch ==
  /\ pc = "dispatch"
  /\ subcommand' = av + 1
  /\ rc' = UNKNOWN_COMMAND
  /\ i' = 0
  /\ pc' = "loop"
  /\ UNCHANGED <<build, mode_sets, args, argc, av, verbose, secvarctl_mode, backend_name,
                 backend, ret, out, calls, probes, file, probed, lookups, compares>>

\* (variant: the comparison runs over the length of the token)
CommandMatches_TokenLength(b, k) ==
  strncmp_eq(args[subcommand], backends[b].commands[k + 1].name, strlen(args[subcommand]))

\* the condition of line 253 for entry k (counted from 0) of backend b
CommandMatches(b, k) ==
  strncmp_eq(args[subcommand], backends[b].commands[k + 1].name, CMD_NAME_CMP)

\* (variant: no break after the call)
AfterCall_NoBreak == "loop"

\* where the loop of line 251 goes after a handler returned (line 256)
AfterCall == "report"

\* lines 251-256: entry i matches, its handler runs and returns r
CallHandler ==
  /\ pc = "loop"
  /\ i < backends[backend].countCmds
  /\ CommandMatches(backend, i)
  /\ compares' = Append(compares, i)
  /\ \E r \in HandlerRets :
       /\ rc' = r
       /\ calls' = Append(calls, [func |-> backends[backend].commands[i + 1].func,
                                  backend |-> backend,
                                  entry |-> i,
                                  argc |-> argc,
                                  argv |-> HandlerArgv(args, argc, av),
                                  returned |-> r])
  /\ pc' = AfterCall
  /\ i' = IF AfterCall = "loop" THEN i + 1 ELSE i
  /\ UNCHANGED <<build, mode_sets, args, argc, av, verbose, secvarctl_mode, backend_name,
                 backend, subcommand, ret, out, probes, file, probed, lookups>>

\* lines 251-253: entry i does not match
NextCommand ==
  /\ pc = "loop"
  /\ i < backends[backend].countCmds
  /\ ~CommandMatches(backend, i)
  /\ compares' = Append(compares, i)
  /\ i' = i + 1
  /\ UNCHANGED <<build, mode_sets, args, argc, av, pc, verbose, secvarctl_mode, backend_name,
                 backend, subcommand, rc, ret, out, calls, probes, file, probed, lookups>>

\* line 251: the table is exhausted
NoMoreCommands ==
  /\ pc = "loop"
  /\ ~(i < backends[backend].countCmds)
  /\ pc' = "report"
  /\ UNCHANGED <<build, mode_sets, args, argc, av, verbose, secvarctl_mode, backend_name,
                 backend, subcommand, i, rc, ret, out, calls, probes, file, probed, lookups, compares>>

\* the test of line 260 on the status x
IsUnknownCommand(x) == x = UNKNOWN_COMMAND

\* (variant: main maps the status to SUCCESS or ARG_PARSE_FAIL)
Report_Normalised ==
  /\ pc = "report"
  /\ IF IsUnknownCommand(rc)
     THEN Return(rc, prlog(PR_ERR, "error: unknown command", verbose) \o usage)
     ELSE Return(IF rc = SUCCESS THEN SUCCESS ELSE ARG_PARSE_FAIL, << >>)
  /\ UNCHANGED <<build, mode_sets, args, argc, av, verbose, secvarctl_mode, backend_name,
                 backend, subcommand, i, rc, calls, probes, file, probed, lookups, compares>>

\* lines 260-266
Report ==
  /\ pc = "report"
  /\ IF IsUnknownCommand(rc)
     THEN Return(rc, prlog(PR_ERR, "error: unknown command", verbose) \o usage)
     ELSE Return(rc, << >>)
  /\ UNCHANGED <<build, mode_sets, args, argc, av, verbose, secvarctl_mode, backend_name,
                 backend, subcommand, i, rc, calls, probes, file, probed, lookups, compares>>

Next ==
  \/ NoArguments
  \/ Begin
  \/ FlagUsage
  \/ FlagHelp
  \/ FlagModeSet
  \/ FlagModeBad
  \/ FlagVerbose
  \/ FlagOther
  \/ FlagsDone
  \/ NoCommand
  \/ ModeUnset
  \/ Probe
  \/ FallbackFound
  \/ FallbackMissing
  \/ Dispatch
  \/ CallHandler
  \/ NextCommand
  \/ NoMoreCommands
  \/ Report

Spec == Init /\ [][Next]_vars

\* main runs on: no step that can be taken is put off for ever (a handler
\* that is invoked returns)
FairSpec == Spec /\ WF_vars(Next)

-----------------------------------------------------------------------------
(* Well-formedness of the state. *)

TypeOK ==
  /\ build \in Builds
  /\ Len(args) >= 1
  /\ argc + av = Len(args)
  /\ argc >= 0
  /\ pc \in {"start", "flags", "check", "fallback", "dispatch", "loop", "report", "done"}
  /\ verbose \in {PR_WARNING, PR_DEBUG}
  /\ secvarctl_mode \in {-1, 0, 1}
  /\ backend \in 0 .. Len(backends)
  /\ Len(calls) <= 1

-----------------------------------------------------------------------------
(* What the specification expects of a run, stated over its inputs. *)

\* The flag phase of section 4.1 on argument vector a from token k on, with
\* mode m so far: how it ends, at which token, and the mode it leaves.
RECURSIVE FlagPhase(_, _, _)
FlagPhase(a, k, m) ==
  IF k > Len(a) THEN [kind |-> "exhausted", at |-> k, mode |-> m]
  ELSE IF ~StartsWithDash(a[k]) THEN [kind |-> "subcommand", at |-> k, mode |-> m]
  ELSE IF a[k] \in {S_usage, S_help, S_h} THEN [kind |-> "help", at |-> k, mode |-> m]
  ELSE IF a[k] \in {S_m, S_mode}
       THEN IF k + 1 <= Len(a) /\ a[k + 1] \in {S_host, S_guest}
            THEN FlagPhase(a, k + 2, IF a[k + 1] = S_host THEN 0 ELSE 1)
            ELSE [kind |-> "badmode", at |-> k + 1, mode |-> m]
  ELSE IF a[k] \in {S_v, S_verbose} THEN FlagPhase(a, k + 1, m)
  ELSE [kind |-> "badflag", at |-> k, mode |-> m]

Parsed == FlagPhase(args, 2, -1)

\* the flag phase set the mode and ended at a subcommand token
ReachesSubcommand == Parsed.kind = "subcommand" /\ Parsed.mode # -1

Done == pc = "done"

\* the probe has run and returned a backend / returned NOT_FOUND
ProbeFound    == probes > 0 /\ probed # 0
ProbeNotFound == probes > 0 /\ probed = 0

\* the three reasons of section 4.3
ReasonAbsent  == ~file.exists
ReasonNoData  == file.exists /\ (~file.readable \/ file.data = << >>)
ReasonUnknown == file.exists /\ file.readable /\ file.data # << >>

\* the default backend name of a mode, and whether the build registers it
DefaultName(m) == IF m = 1 THEN GUEST_BACKEND ELSE HOST_BACKEND
CompiledIn(m) == \E b \in 1 .. Len(backends) : backends[b].name = DefaultName(m)
Registered(m) == CHOOSE b \in 1 .. Len(backends) : backends[b].name = DefaultName(m)

\* entries (counted from 0) of backend b whose name is tok / agrees with tok
\* over the first 32 characters
Named(b, tok) ==
  { e \in 0 .. Len(backends[b].commands) - 1 : backends[b].commands[e + 1].name = tok }
Agreeing(b, tok) ==
  { e \in 0 .. Len(backends[b].commands) - 1 :
      Take(backends[b].commands[e + 1].name, 32) = Take(tok, 32) }

\* the tokens from the subcommand on
FromSubcommand == SubSeq(args, Parsed.at, Len(args))

Emitted(msg) == \E k \in 1 .. Len(out) : out[k] = msg

\* out ends with the messages of tl
EndsWith(tl) == Len(out) >= Len(tl) /\ SubSeq(out, Len(out) - Len(tl) + 1, Len(out)) = tl

\* nothing of probing or dispatching has happened
NothingProbed == probes = 0 /\ lookups = 0 /\ compares = << >> /\ calls = << >>

\* the one handler invocation of the run is that of an entry of backend b
\* named by the subcommand token, with argc/argv from that token to the end
InvokedAt(b) ==
  /\ Len(calls) = 1
  /\ calls[1].backend = b
  /\ calls[1].entry \in Named(b, args[Parsed.at])
  /\ calls[1].func = backends[b].commands[calls[1].entry + 1].func
  /\ calls[1].argv = FromSubcommand
  /\ calls[1].argc = Len(FromSubcommand)

\* the dispatch the specification describes for backend b, followed to the end
DispatchedOn(b) ==
  IF Agreeing(b, args[Parsed.at]) = {}
  THEN calls = << >> /\ ret = UNKNOWN_COMMAND
  ELSE /\ InvokedAt(b)
       /\ \A e \in Agreeing(b, args[Parsed.at]) : calls[1].entry <= e
       /\ ret = calls[1].returned

-----------------------------------------------------------------------------
(* Claims. *)

\* C1: when the flag phase sets the mode and ends at a subcommand token, the
\* probe returns backend B and the token is the name of a command of B, that
\* command's handler is invoked with argc/argv starting at the subcommand
\* token itself, every following token present, in order and unchanged.
C1_HandlerGetsSubcommandArgs ==
  (/\ pc \in {"report", "done"}
   /\ ReachesSubcommand
   /\ ProbeFound
   /\ Named(probed, args[Parsed.at]) # {})
  => InvokedAt(probed)

C1_Witness ==
  /\ Done /\ ReachesSubcommand /\ ProbeFound
  /\ Len(calls) = 1
  /\ Len(calls[1].argv) >= 3
  /\ calls[1].argv[2] # calls[1].argv[3]
  /\ StartsWithDash(calls[1].argv[2])

\* C2: whenever a handler was invoked, the value main returns is the integer
\* the handler returned, whatever it is.
C2_ExitStatusIsHandlerStatus ==
  (Done /\ calls # << >>) => ret = calls[Len(calls)].returned

C2_Witness ==
  /\ Done /\ calls # << >>
  /\ calls[1].returned = UNKNOWN_COMMAND
  /\ ret = UNKNOWN_COMMAND

\* C3: in a run that reached dispatch, the "unknown command" error is
\* emitted if and only if no command matched; never when a handler ran.
C3_UnknownCommandIffNoHandler ==
  (Done /\ subcommand # 0) =>
     (Emitted("error: unknown command") <=> calls = << >>)

\* C4: when a backend was resolved and the subcommand token matches no
\* command of its table, no handler is invoked, the error and the usage text
\* are emitted and main returns UNKNOWN_COMMAND.
C4_UnknownCommand ==
  (Done /\ backend # 0 /\ Agreeing(backend, args[Parsed.at]) = {}) =>
     /\ calls = << >>
     /\ EndsWith(<<"error: unknown command">> \o usage)
     /\ ret = UNKNOWN_COMMAND

C4_Witness ==
  /\ Done /\ backend # 0 /\ ProbeNotFound
  /\ Agreeing(backend, args[Parsed.at]) = {}
  /\ Len(compares) = 4

\* C5: in every run at most one handler is invoked, also when several
\* entries of the table bear the subcommand's name.
C5_AtMostOneHandler == Len(calls) <= 1

C5_Witness ==
  /\ Done /\ Len(calls) = 1
  /\ Cardinality(Named(backend, args[subcommand])) >= 2

\* C6: the probe, any registry lookup and any handler invocation happen only
\* with the mode set to HOST or GUEST; when the flag phase ends at a
\* subcommand token with the mode unset, main prints usage and returns
\* SUCCESS without probing, looking up or invoking.
C6_ModeBeforeLookup ==
  /\ (probes > 0 \/ lookups > 0 \/ compares # << >> \/ calls # << >>)
       => (secvarctl_mode \in {0, 1} /\ secvarctl_mode = Parsed.mode)
  /\ (Parsed.kind = "subcommand" /\ Parsed.mode = -1) => pc # "report"
  /\ (Done /\ Parsed.kind = "subcommand" /\ Parsed.mode = -1)
       => (ret = SUCCESS /\ out = usage /\ NothingProbed)

C6_Witness ==
  /\ Done /\ Parsed.kind = "subcommand" /\ Parsed.mode = -1
  /\ verbose = PR_DEBUG
  /\ Named(1, args[Parsed.at]) # {}

\* C7: when the probe returns NOT_FOUND, for any of its three reasons, and
\* the requested mode's backend is compiled in, main goes on with the backend
\* registered under the mode's default name and dispatches as it does for a
\* backend the probe returned: same handler, same argc/argv, same status.
C7_FallbackDispatches ==
  /\ (ProbeNotFound /\ pc \in {"dispatch", "loop", "report", "done"})
       => LET m == Parsed.mode
          IN CompiledIn(m) => backend = Registered(m)
  /\ (Done /\ ProbeNotFound)
       => LET p == Parsed
          IN CompiledIn(p.mode) =>
               (p.kind = "subcommand" /\ p.mode # -1 /\ DispatchedOn(Registered(p.mode)))
  /\ (Done /\ ProbeFound)
       => (ReachesSubcommand /\ DispatchedOn(probed))

C7_Witness ==
  /\ Done /\ ProbeNotFound /\ ReasonUnknown
  /\ Parsed.mode = 1 /\ Len(backends) = 2
  /\ backend = 2
  /\ Len(calls) = 1 /\ calls[1].func = "guest_read"

\* C8: when the probe returns NOT_FOUND and the requested mode's backend is
\* not compiled in, main emits a warning and returns SUCCESS; no command is
\* compared and no handler invoked, whatever the subcommand and its arguments.
C8_ModeNotEnabled ==
  /\ (ProbeNotFound /\ ~CompiledIn(Parsed.mode))
       => (compares = << >> /\ calls = << >> /\ pc \in {"fallback", "done"})
  /\ (Done /\ ProbeNotFound /\ ~CompiledIn(Parsed.mode))
       => (ret = SUCCESS /\ EndsWith(<<"warn: mode is not enabled">>))

C8_Witness ==
  /\ Done /\ ProbeNotFound /\ ~CompiledIn(Parsed.mode)
  /\ Parsed.mode = 1
  /\ Named(1, args[Parsed.at]) # {}
  /\ Len(FromSubcommand) >= 2

\* C9: when the flag phase reaches -m/--mode and the next token is absent or
\* is not exactly "host" or "guest", main emits a warning and the usage text
\* and returns SUCCESS at once: it stops at that token, does not probe and
\* invokes no handler.
C9_BadModeValue ==
  /\ Parsed.kind = "badmode" => pc \in {"start", "flags", "done"}
  /\ (Done /\ Parsed.kind = "badmode") =>
       /\ ret = SUCCESS
       /\ out = (IF Parsed.at <= Len(args)
                 THEN <<"warn: unknown mode">> ELSE <<"warn: mode name is needed">>) \o usage
       /\ av = Parsed.at - 1
       /\ secvarctl_mode = Parsed.mode
       /\ NothingProbed

C9_Witness ==
  /\ Done /\ Parsed.kind = "badmode"
  /\ Parsed.at < Len(args)
  /\ args[Parsed.at] = S_Host
  /\ args[Parsed.at + 1] = S_verbose
  /\ Parsed.mode = 0
  /\ verbose = PR_WARNING

\* C10: with zero arguments, or with every token consumed by the flag phase
\* and no early exit, main prints usage and returns ARG_PARSE_FAIL, whether
\* or not the mode was set, and neither probes nor invokes a handler.
C10_NoSubcommand ==
  /\ Parsed.kind = "exhausted" => pc \in {"start", "flags", "check", "done"}
  /\ (Done /\ Parsed.kind = "exhausted") =>
       /\ ret = ARG_PARSE_FAIL
       /\ out = (IF Len(args) < 2 THEN << >> ELSE <<"error: commands not found">>) \o usage
       /\ NothingProbed

C10_Witness ==
  /\ Done /\ Parsed.kind = "exhausted"
  /\ Parsed.mode = -1
  /\ Len(args) >= 2


\* C11: when --usage, --help or -h is reached in the flag phase, main prints
\* the usage text (after the help text for --help and -h) and returns
\* SUCCESS at once: it stops at that token whatever follows, does not probe
\* and invokes no handler.
C11_HelpStopsAtOnce ==
  /\ Parsed.kind = "help" => pc \in {"start", "flags", "done"}
  /\ (Done /\ Parsed.kind = "help") =>
       /\ ret = SUCCESS
       /\ out = (IF args[Parsed.at] = S_usage THEN <<"usage">> ELSE <<"help", "usage">>)
       /\ av = Parsed.at - 1
       /\ secvarctl_mode = Parsed.mode
       /\ NothingProbed

C11_Witness ==
  /\ Done /\ Parsed.kind = "help"
  /\ args[Parsed.at] = S_help
  /\ Parsed.at + 1 < Len(args)
  /\ args[Parsed.at + 1] = S_m
  /\ args[Parsed.at + 2] = S_verbose
  /\ out = <<"help", "usage">>


\* the -m/--mode flags with a valid value that the flag phase of section 4.1
\* passes on argument vector a from token k on
RECURSIVE ModeFlags(_, _)
ModeFlags(a, k) ==
  IF k > Len(a) \/ ~StartsWithDash(a[k]) THEN 0
  ELSE IF a[k] \in {S_m, S_mode}
       THEN IF k + 1 <= Len(a) /\ a[k + 1] \in {S_host, S_guest}
            THEN 1 + ModeFlags(a, k + 2)
            ELSE 0
  ELSE IF a[k] \in {S_v, S_verbose} THEN ModeFlags(a, k + 1)
  ELSE 0

\* C12 as stated: in any run that reaches the probe, the mode was assigned
\* exactly one time during flag parsing.
C12_ModeAssignedOnce == probes > 0 => mode_sets = 1

\* C12 as amended: every -m/--mode flag of the flag phase that has a valid
\* value assigns the mode and the fallback backend name, a later one
\* replacing an earlier one; in any run that reaches the probe the mode was
\* assigned at least once and is that of the last such flag, and once the
\* flag phase has ended it is not assigned again.
C12_ModeOfLastFlag ==
  /\ [](probes > 0 =>
          /\ mode_sets = ModeFlags(args, 2)
          /\ mode_sets >= 1
          /\ secvarctl_mode = Parsed.mode
          /\ secvarctl_mode \in {0, 1}
          /\ backend_name = (IF secvarctl_mode = 1 THEN "GUEST_BACKEND" ELSE "HOST_BACKEND"))
  /\ [][pc # "flags" =>
          /\ secvarctl_mode' = secvarctl_mode
          /\ backend_name' = backend_name
          /\ mode_sets' = mode_sets]_vars

C12_Witness ==
  /\ probes > 0
  /\ mode_sets = 2
  /\ args[3] = S_host
  /\ secvarctl_mode = 1
  /\ backend_name = "GUEST_BACKEND"


-----------------------------------------------------------------------------
(* is_known_backend on its own: one call with a candidate string and an
   output that already holds something. *)

\* a name with its last character replaced
OtherVersion(n) == Take(n, strlen(n) - 1) \o <<"9">>

\* candidate strings: the registered names, names followed by more, proper
\* prefixes of names (the empty string among them), and strings that only
\* resemble a name
Candidates ==
  { HOST_BACKEND, GUEST_BACKEND,
    HOST_BACKEND \o S_nl, GUEST_BACKEND \o S_x, GUEST_BACKEND \o HOST_BACKEND,
    << >>, Take(HOST_BACKEND, 4), Take(HOST_BACKEND, strlen(HOST_BACKEND) - 1),
    Take(GUEST_BACKEND, strlen(GUEST_BACKEND) - 1),
    OtherVersion(HOST_BACKEND), OtherVersion(GUEST_BACKEND), S_host }

\* the candidate string of the call
buff == args[1]

LookupInit ==
  /\ build \in Builds
  /\ args \in { <<cand>> : cand \in Candidates }
  /\ backend \in 0..Len(Registries[build])
  /\ verbose \in {PR_WARNING, PR_DEBUG}
  /\ pc = "lookup"
  /\ argc = 0 /\ av = 0
  /\ secvarctl_mode = -1 /\ mode_sets = 0 /\ backend_name = "NULL"
  /\ subcommand = 0 /\ i = 0 /\ rc = -1 /\ ret = 0
  /\ out = << >> /\ calls = << >>
  /\ probes = 0 /\ file = FileAbsent /\ probed = 0
  /\ lookups = 0 /\ compares = << >>

\* lines 86-104: the call is_known_backend(buff, &backend)
Lookup ==
  /\ pc = "lookup"
  /\ LET r == is_known_backend(backends, buff, backend)
     IN /\ rc' = r.rc
        /\ backend' = r.backend
        /\ out' = out \o found_log(r, verbose)
  /\ lookups' = lookups + 1
  /\ pc' = "looked"
  /\ UNCHANGED <<build, mode_sets, args, argc, av, verbose, secvarctl_mode, backend_name,
                 subcommand, i, ret, calls, probes, file, probed, compares>>

LookupNext == Lookup

LookupSpec == LookupInit /\ [][LookupNext]_vars

\* p is a prefix of s, character by character
IsPrefix(p, s) == Len(p) <= Len(s) /\ \A j \in 1..Len(p) : s[j] = p[j]

\* the registry entries whose full name the candidate begins with
PrefixHits == { k \in 1..Len(backends) : IsPrefix(backends[k].name, buff) }

\* C13: for every backend of the registry, whichever of the host and guest
\* backends the build has, the lookup of exactly its name returns
\* BACKEND_FOUND and leaves the output at that backend, not at another one.
C13_ExactNameFindsItsBackend ==
  \A k \in 1..Len(backends) :
    (pc = "looked" /\ buff = backends[k].name) =>
      /\ rc = BACKEND_FOUND
      /\ backend = k
      /\ backends[backend].name = buff

C13_Witness ==
  /\ pc = "looked"
  /\ build.host /\ build.guest
  /\ buff = GUEST_BACKEND
  /\ rc = BACKEND_FOUND
  /\ backend = 2

\* C15: the lookup returns BACKEND_FOUND with the first backend, in
\* registry order, whose full name the candidate begins with (so a name
\* followed by more characters is found), and UNKNOWN_BACKEND exactly when
\* the candidate begins with no registered name, the output then keeping
\* what it held; a proper prefix of a name is not found.
C15_PrefixOverRegisteredName ==
  [][pc = "lookup" =>
       IF PrefixHits = {}
       THEN rc' = UNKNOWN_BACKEND /\ backend' = backend
       ELSE /\ rc' = BACKEND_FOUND
            /\ backend' \in PrefixHits
            /\ \A k \in PrefixHits : backend' <= k]_vars

C15_Witness ==
  /\ pc = "looked"
  /\ build.host /\ build.guest
  /\ buff = Take(HOST_BACKEND, strlen(HOST_BACKEND) - 1)
  /\ rc = UNKNOWN_BACKEND
  /\ backend = 2


\* C14: when the probe returns a backend, dispatch runs on the command table
\* of that backend, the one the platform reported, whatever mode was
\* requested (with both backends built in, mode guest on a platform that
\* reports the host backend dispatches on the host table, and the other way
\* round); the default name of the requested mode is looked up only when
\* the probe returned NOT_FOUND.
C14_ProbedBackendDispatches ==
  /\ pc = "fallback" => ProbeNotFound
  /\ lookups > 1 => ProbeNotFound
  /\ ProbeFound =>
       /\ IsPrefix(backends[probed].name, file.data)
       /\ backend = probed
       /\ lookups = 1
       /\ \A c \in 1 .. Len(calls) :
            /\ calls[c].backend = probed
            /\ calls[c].func = backends[probed].commands[calls[c].entry + 1].func
       /\ Done => DispatchedOn(probed)

C14_Witness ==
  /\ Done /\ ProbeFound
  /\ build.host /\ build.guest
  /\ secvarctl_mode = 1
  /\ backends[probed].name = HOST_BACKEND
  /\ Len(calls) = 1
  /\ calls[1].func = "host_read"


-----------------------------------------------------------------------------
(* The dispatch of lines 248-266 on its own: main has set the mode, the
   probe has returned a backend, and a subcommand token is next. *)

\* subcommand tokens: command names, proper prefixes of names, names
\* followed by more, a name of no command, the empty string, and strings
\* around the length the comparison reads
DispatchTokens ==
  { S_read, S_verify, Take(S_read, 3), S_read \o <<"x">>, S_host, << >>,
    LongName, Take(LongName, CMD_NAME_CMP), Take(LongName, CMD_NAME_CMP) \o <<"z">>,
    Take(LongName, CMD_NAME_CMP - 1) }

DispatchInit ==
  /\ build \in Builds \cup LongBuilds
  /\ \E tok \in DispatchTokens, rest \in Trails :
       args = <<S_prog, S_m, S_host, tok>> \o rest
  /\ av = 3
  /\ argc = Len(args) - 3
  /\ pc = "dispatch"
  /\ verbose = PR_WARNING
  /\ secvarctl_mode = 0 /\ mode_sets = 1 /\ backend_name = "HOST_BACKEND"
  /\ backend \in 1 .. Len(Registries[build])
  /\ probed = backend
  /\ probes = 1
  /\ file = FileWith(Registries[build][backend].name)
  /\ lookups = 1
  /\ subcommand = 0 /\ i = 0 /\ rc = 0 /\ ret = 0
  /\ out = << >> /\ calls = << >> /\ compares = << >>

DispatchNext ==
  \/ Dispatch
  \/ CallHandler
  \/ NextCommand
  \/ NoMoreCommands
  \/ Report

DispatchSpec == DispatchInit /\ [][DispatchNext]_vars

\* character j of the C string s: past its end is the terminating NUL
CharAt(s, j) == IF j <= Len(s) THEN s[j] ELSE "NUL"

\* a and b agree over the first 32 characters
Agree32(a, b) == \A j \in 1 .. 32 : CharAt(a, j) = CharAt(b, j)

\* the subcommand token of the run
Token == args[av + 1]

\* name of entry e (counted from 0) of the run's backend
NameAt(e) == backends[backend].commands[e + 1].name

\* the entries that agree with the token over the first 32 characters
Hits == { e \in 0 .. backends[backend].countCmds - 1 : Agree32(Token, NameAt(e)) }

\* C16: the handler invoked is that of the first command, in registration
\* order, whose name agrees with the subcommand token over the first 32
\* characters; a name shorter than 32 characters is matched by the equal
\* token only, so a proper prefix of a name or a name followed by more
\* matches nothing and the result is UNKNOWN_COMMAND; no entry after the
\* first match is compared or invoked.
C16_FirstMatchOver32 ==
  /\ \A j \in 1 .. Len(compares) :
       /\ compares[j] = j - 1
       /\ \A h \in Hits : compares[j] <= h
  /\ Len(calls) <= 1
  /\ \A c \in 1 .. Len(calls) :
       /\ calls[c].entry \in Hits
       /\ \A h \in Hits : calls[c].entry <= h
       /\ calls[c].func = backends[backend].commands[calls[c].entry + 1].func
       /\ Len(NameAt(calls[c].entry)) < 32 => NameAt(calls[c].entry) = Token
  /\ pc \in {"report", "done"} =>
       IF Hits = {}
       THEN calls = << >> /\ rc = UNKNOWN_COMMAND
            /\ Len(compares) = backends[backend].countCmds
       ELSE Len(calls) = 1 /\ Len(compares) = calls[1].entry + 1
  /\ (Done /\ \A e \in 0 .. backends[backend].countCmds - 1 :
                Len(NameAt(e)) < 32 /\ NameAt(e) # Token) =>
       calls = << >> /\ ret = UNKNOWN_COMMAND

C16_Witness ==
  /\ Done
  /\ build.tables = "documented"
  /\ Token = Take(S_read, 3)
  /\ calls = << >>
  /\ ret = UNKNOWN_COMMAND
  /\ Len(compares) = backends[backend].countCmds


\* a -v/--verbose flag stands before token k of the argument vector
VerboseBefore(k) == \E j \in 2 .. k - 1 : args[j] \in {S_v, S_verbose}

\* C17: the flag loop stops at the first token it examines that does not
\* begin with '-' (the value of -m/--mode is consumed with its flag), and
\* that token is the subcommand; from then on main leaves verbosity and mode
\* unchanged, and tokens after the subcommand that look like flags change
\* neither, cause no early exit of main, and reach the handler as ordinary
\* arguments.
C17_FlagsEndAtSubcommand ==
  /\ [](pc \notin {"start", "flags"} /\ Parsed.kind = "subcommand" =>
          /\ av = Parsed.at - 1
          /\ ~StartsWithDash(args[av + 1])
          /\ secvarctl_mode = Parsed.mode
          /\ verbose = (IF VerboseBefore(Parsed.at) THEN PR_DEBUG ELSE PR_WARNING)
          /\ \A c \in 1 .. Len(calls) :
               calls[c].argv = FromSubcommand /\ calls[c].argc = Len(FromSubcommand)
          /\ (Done /\ Parsed.mode # -1) => probes = 1
          /\ (Done /\ ProbeFound /\ Named(probed, args[Parsed.at]) # {}) => Len(calls) = 1)
  /\ [][pc \notin {"start", "flags"} =>
          /\ verbose' = verbose
          /\ secvarctl_mode' = secvarctl_mode
          /\ av' = av
          /\ argc' = argc]_vars

C17_Witness ==
  /\ Done /\ ReachesSubcommand
  /\ verbose = PR_WARNING
  /\ Len(calls) = 1
  /\ calls[1].argv = <<S_read, S_verbose, S_h>>


\* C18: a token of the flag phase that begins with '-' and is none of
\* --usage, --help, -h, -m, --mode, -v, --verbose makes main print the usage
\* text and return SUCCESS at once, not ARG_PARSE_FAIL, also when a valid
\* mode was set before it and a valid subcommand follows it; nothing is
\* probed and no handler is invoked.
C18_UnknownFlagSucceeds ==
  /\ Parsed.kind = "badflag" => pc \in {"start", "flags", "done"}
  /\ (Done /\ Parsed.kind = "badflag") =>
       /\ ret = SUCCESS
       /\ ret # ARG_PARSE_FAIL
       /\ out = <<"usage">>
       /\ av = Parsed.at - 1
       /\ NothingProbed

C18_Witness ==
  /\ Done /\ Parsed.kind = "badflag"
  /\ Parsed.mode = 1
  /\ args[Parsed.at] = S_x
  /\ Parsed.at < Len(args)
  /\ args[Parsed.at + 1] = S_read
  /\ ret = SUCCESS


\* C19: every run of main ends, given that an invoked handler returns: each
\* iteration of the flag loop consumes at least one token (two for
\* -m/--mode with a value), so the loop makes at most argc-1 iterations and
\* the remaining argument count is never negative when tested; the probe
\* runs at most once; the dispatch loop makes at most countCmds comparisons.
C19_MainTerminates ==
  /\ <>Done
  /\ [](/\ argc >= 0
        /\ argc + av = Len(args)
        /\ probes <= 1
        /\ backend # 0 => Len(compares) <= backends[backend].countCmds)
  /\ [][(pc = "flags" /\ pc' = "flags") =>
          /\ av' >= av + 1
          /\ argc' = argc - (av' - av)
          /\ (args[av + 1] \in {S_m, S_mode}) => av' = av + 2]_vars

C19_Witness ==
  /\ Done
  /\ av = 4
  /\ args[2] \in {S_m, S_mode} /\ args[4] = S_v
  /\ probes = 1
  /\ backend # 0
  /\ Len(compares) = backends[backend].countCmds

====
